---- MODULE Spec2Model ----
(***************************************************************************)
(* Model of server.js: an Express application with seven JSON routes over  *)
(* two MongoDB collections (users, pets).  Every route handler is an async *)
(* function: it runs synchronously up to its first await, is suspended     *)
(* while the store call is outstanding, and is resumed with the answer (or *)
(* the thrown error) of that call.  Handlers of different requests         *)
(* interleave at their awaits.                                             *)
(***************************************************************************)
EXTENDS Integers, Sequences, FiniteSets, TLC

(***************************************************************************)
(* Bounds of the model.                                                    *)
(***************************************************************************)
MaxIds == 2        \* ObjectIds the driver generates in one run
MaxClock == 1      \* last value of the millisecond clock read by new Date()

\* Slots for the requests in flight at the same time.
Procs == {1, 2}

(***************************************************************************)
(* JavaScript values of a JSON request body.  A number is kept in tenths   *)
(* (0.5 is Num(5), 12 is Num(120)); a string is a sequence of characters.  *)
(***************************************************************************)
Undefined == [t |-> "undefined"]
NaN == [t |-> "NaN"]
Num(tenths) == [t |-> "number", n |-> tenths]
Str(chars) == [t |-> "string", s |-> chars]

IsNum(v) == v.t = "number"

\* ToBoolean, as `!x` applies it: undefined, "", 0 and NaN are falsy.
Truthy(v) ==
    CASE v.t = "undefined" -> FALSE
      [] v.t = "NaN" -> FALSE
      [] v.t = "number" -> v.n # 0
      [] v.t = "string" -> v.s # << >>

Digits == {"0", "1", "2", "3", "4", "5", "6", "7", "8", "9"}
DigitVal(c) ==
    CASE c = "0" -> 0 [] c = "1" -> 1 [] c = "2" -> 2 [] c = "3" -> 3
      [] c = "4" -> 4 [] c = "5" -> 5 [] c = "6" -> 6 [] c = "7" -> 7
      [] c = "8" -> 8 [] c = "9" -> 9
DigitChar(d) ==
    CASE d = 0 -> "0" [] d = 1 -> "1" [] d = 2 -> "2" [] d = 3 -> "3"
      [] d = 4 -> "4" [] d = 5 -> "5" [] d = 6 -> "6" [] d = 7 -> "7"
      [] d = 8 -> "8" [] d = 9 -> "9"

\* Length of the longest prefix of s made of decimal digits.
RECURSIVE DigitPrefixLen(_)
DigitPrefixLen(s) ==
    IF s = << >> \/ Head(s) \notin Digits THEN 0 ELSE 1 + DigitPrefixLen(Tail(s))

\* Value of a sequence of decimal digits.
RECURSIVE DigitsValue(_, _)
DigitsValue(s, acc) ==
    IF s = << >> THEN acc ELSE DigitsValue(Tail(s), 10 * acc + DigitVal(Head(s)))

HasSign(s) == s # << >> /\ Head(s) \in {"-", "+"}
Unsigned(s) == IF HasSign(s) THEN Tail(s) ELSE s
SignOf(s) == IF s # << >> /\ Head(s) = "-" THEN -1 ELSE 1

\* ToNumber on a string (StringToNumber): "" is 0, a decimal literal with at
\* most one fraction digit is its value, anything else is NaN.
StringToNumber(s) ==
    LET u == Unsigned(s)
        k == DigitPrefixLen(u)
        int == SubSeq(u, 1, k)
        rest == SubSeq(u, k + 1, Len(u))
    IN  IF s = << >> THEN Num(0)
        ELSE IF k = 0 THEN NaN
        ELSE IF rest = << >> THEN Num(SignOf(s) * 10 * DigitsValue(int, 0))
        ELSE IF Len(rest) = 2 /\ rest[1] = "." /\ rest[2] \in Digits
             THEN Num(SignOf(s) * (10 * DigitsValue(int, 0) + DigitVal(rest[2])))
        ELSE NaN

ToNumber(v) ==
    CASE v.t = "number" -> v
      [] v.t = "string" -> StringToNumber(v.s)
      [] OTHER -> NaN

\* The relational operators a < b and a > b on a body value and a number:
\* both sides go through ToNumber, and a comparison with NaN is false.
JsLess(a, b) ==
    LET x == ToNumber(a)
        y == ToNumber(b)
    IN  IsNum(x) /\ IsNum(y) /\ x.n < y.n
JsGreater(a, b) == JsLess(b, a)

\* Decimal digits of a natural number.
RECURSIVE NatToChars(_)
NatToChars(k) ==
    IF k < 10 THEN << DigitChar(k) >>
    ELSE Append(NatToChars(k \div 10), DigitChar(k % 10))

\* ToString on a number kept in tenths: "12", "0.5", "-1".
NumberToString(n) ==
    LET a == IF n < 0 THEN -n ELSE n
        body == IF a % 10 = 0 THEN NatToChars(a \div 10)
                ELSE NatToChars(a \div 10) \o << ".", DigitChar(a % 10) >>
    IN  IF n < 0 THEN << "-" >> \o body ELSE body

ToStringJs(v) ==
    CASE v.t = "string" -> v.s
      [] v.t = "number" -> NumberToString(v.n)
      [] v.t = "NaN" -> << "N", "a", "N" >>
      [] OTHER -> << "u", "n", "d", "e", "f", "i", "n", "e", "d" >>

\* parseInt(v): ToString, an optional sign, then the longest run of decimal
\* digits; NaN when that run is empty.  What follows the digits is ignored.
ParseInt(v) ==
    LET s == ToStringJs(v)
        u == Unsigned(s)
        k == DigitPrefixLen(u)
    IN  IF k = 0 THEN NaN
        ELSE Num(SignOf(s) * 10 * DigitsValue(SubSeq(u, 1, k), 0))


(***************************************************************************)
(* Request inputs.                                                         *)
(***************************************************************************)
Empty == Str(<< >>)
Ann == Str(<< "A", "n", "n" >>)
MailA == Str(<< "a", "@", "x" >>)
MailB == Str(<< "b", "@", "x" >>)
Phone == Str(<< "5", "5", "5" >>)
Road == Str(<< "1", " ", "R", "d" >>)
Rex == Str(<< "R", "e", "x" >>)
Dog == Str(<< "D", "o", "g" >>)
Lab == Str(<< "L", "a", "b" >>)

\* A created value a client may put in the body: a JSON number, never a Date.
ClientCreated == Num(-10)

UserFields == {"name", "email", "phone", "address"}
AllUserBodies ==
    [name : {Undefined, Ann}, email : {Undefined, Empty, MailA, MailB},
     phone : {Empty, Phone}, address : {Undefined, Road},
     created : {Undefined, ClientCreated}]
\* The complete bodies, with and without a client's created, and the bodies
\* that lack exactly one required field.
UserBodies ==
    {b \in AllUserBodies :
        \/ \A f \in UserFields : Truthy(b[f])
        \/ /\ Cardinality({f \in UserFields : ~Truthy(b[f])}) = 1
           /\ b.email # MailB
           /\ b.created = Undefined}

PetTextFields == {"petName", "species", "breed", "ownerName", "ownerPhone"}
PetAges ==
    {Undefined, Empty,
     Num(0), Num(5), Num(120), Num(500), Num(505), Num(600), Num(-10),
     Str(<< "0" >>), Str(<< "1", "2" >>), Str(<< "5", "0" >>), Str(<< "5", "1" >>),
     Str(<< "a", "b", "c" >>), Str(<< "9", "9", "a" >>)}
AllPetBodies ==
    [petName : {Undefined, Rex}, species : {Empty, Dog}, breed : {Undefined, Lab},
     age : PetAges, ownerName : {Empty, Ann}, ownerPhone : {Undefined, Phone}]
\* Every age with the text fields present, and each single missing text field.
PetBodies ==
    {b \in AllPetBodies :
        \/ \A f \in PetTextFields : Truthy(b[f])
        \/ /\ Cardinality({f \in PetTextFields : ~Truthy(b[f])}) = 1
           /\ b.age = Num(120)}

\* The :id path parameter: the 24 hex digits of ObjectId i, or a string the
\* ObjectId constructor rejects (too short, or not hexadecimal).
HexOf(i) == [len |-> 24, hex |-> TRUE, val |-> i]
NeverId == 0
IdParams ==
    {HexOf(i) : i \in NeverId..MaxIds}
        \cup {[len |-> 3, hex |-> TRUE, val |-> 1], [len |-> 24, hex |-> FALSE, val |-> 1]}

\* new ObjectId(param): the id, or a thrown BSONError.
ObjectId(param) ==
    IF param.len = 24 /\ param.hex THEN [ok |-> TRUE, id |-> param.val]
    ELSE [ok |-> FALSE]

(***************************************************************************)
(* State.                                                                  *)
(***************************************************************************)
VARIABLES
    users,      \* the users collection: a set of documents
    pets,       \* the pets collection
    pc,         \* per request slot: the await its handler is suspended at
    req,        \* per request slot: the request being handled
    doc,        \* per request slot: newUser / newPet awaiting insertOne
    out,        \* the exchange (request and response) the last step completed
    now,        \* the clock new Date() reads
    nextId,     \* the next ObjectId the driver generates
    storeUp,    \* whether the store answers calls
    alive,      \* the process has not exited
    raced       \* history: emails for which two CreateUser handlers were both
                \* between their duplicate check and their insert

vars == << users, pets, pc, req, doc, out, now, nextId, storeUp, alive, raced >>

NoReq == [op |-> "none"]
NoDoc == [t |-> "none"]
NoExchange == [req |-> NoReq]
Date(ms) == [t |-> "date", ms |-> ms]

Init ==
    /\ users = {}
    /\ pets = {}
    /\ pc = [p \in Procs |-> "idle"]
    /\ req = [p \in Procs |-> NoReq]
    /\ doc = [p \in Procs |-> NoDoc]
    /\ out = NoExchange
    /\ now = 0
    /\ nextId = 1
    /\ storeUp = TRUE
    /\ alive = TRUE
    /\ raced = {}

(***************************************************************************)
(* Responses.                                                              *)
(***************************************************************************)
StoreErrorMessage == "store error"
BsonErrorMessage == "invalid ObjectId"

\* res.status(status).json(json) answers request r, and the handler returns.
Respond(p, r, status, json) ==
    /\ out' = [req |-> r, status |-> status, json |-> json]
    /\ pc' = [pc EXCEPT ![p] = "idle"]
    /\ req' = [req EXCEPT ![p] = NoReq]
    /\ doc' = [doc EXCEPT ![p] = NoDoc]

\* Mutant of the catch block: the error is thrown on, the request is never
\* answered and the unhandledRejection handler ends the process.
Rethrow(p, r, message) ==
    /\ out' = NoExchange
    /\ pc' = [pc EXCEPT ![p] = "idle"]
    /\ req' = [req EXCEPT ![p] = NoReq]
    /\ doc' = [doc EXCEPT ![p] = NoDoc]
    /\ alive' = FALSE

\* The catch block of the CRUD handlers: the error becomes a 500 response.
Catch(p, r, message) ==
    /\ Respond(p, r, 500, [success |-> FALSE, error |-> message])
    /\ alive' = alive

\* The handler of request r suspends at an await: nothing is sent.
Await(p, r, label) ==
    /\ out' = NoExchange
    /\ pc' = [pc EXCEPT ![p] = label]
    /\ req' = [req EXCEPT ![p] = r]

\* res.json writes the response within the handler's own turn of the event
\* loop: the exchange is out of the process before any other handler, the
\* clock or the store takes a step.
Ready == alive /\ out = NoExchange

Flush ==
    /\ alive
    /\ out # NoExchange
    /\ out' = NoExchange
    /\ UNCHANGED << users, pets, pc, req, doc, now, nextId, storeUp, alive, raced >>

\* A request is accepted on a slot that is not handling one.
Free(p) == Ready /\ pc[p] = "idle"

Creating == {p \in Procs : pc[p] \in {"findOne", "insertUser", "insertPet"}}
\* One more insert fits the bound on generated ObjectIds.
IdLeft == nextId + Cardinality(Creating) <= MaxIds

(***************************************************************************)
(* The store and the clock.                                                *)
(***************************************************************************)
Tick ==
    /\ Ready
    /\ now < MaxClock
    /\ now' = now + 1
    /\ out' = NoExchange
    /\ UNCHANGED << users, pets, pc, req, doc, nextId, storeUp, alive, raced >>

StoreFail ==
    /\ Ready
    /\ storeUp
    /\ storeUp' = FALSE
    /\ out' = NoExchange
    /\ UNCHANGED << users, pets, pc, req, doc, now, nextId, alive, raced >>

StoreRecover ==
    /\ Ready
    /\ ~storeUp
    /\ storeUp' = TRUE
    /\ out' = NoExchange
    /\ UNCHANGED << users, pets, pc, req, doc, now, nextId, alive, raced >>

(***************************************************************************)
(* GET /api/status                                                         *)
(***************************************************************************)
StatusBegin(p) ==
    /\ Free(p)
    /\ Await(p, [op |-> "status"], "ping")
    /\ UNCHANGED << users, pets, doc, now, nextId, storeUp, alive, raced >>

\* Both branches answer with res.json: status 200.
StatusBody(pingOk) ==
    IF pingOk THEN [connected |-> TRUE, message |-> "MongoDB connection active"]
    ELSE [connected |-> FALSE, message |-> "MongoDB connection failed",
          error |-> StoreErrorMessage]

StatusReturn(p) ==
    /\ Ready
    /\ pc[p] = "ping"
    /\ Respond(p, req[p], 200, StatusBody(storeUp))
    /\ UNCHANGED << users, pets, now, nextId, storeUp, alive, raced >>

(***************************************************************************)
(* POST /api/users                                                         *)
(***************************************************************************)
\* Mutant of the required-fields check: address is not looked at.
MissingUserFieldsButAddress(body) ==
    ~Truthy(body.name) \/ ~Truthy(body.email) \/ ~Truthy(body.phone)

\* !name || !email || !phone || !address
MissingUserFields(body) ==
    ~Truthy(body.name) \/ ~Truthy(body.email) \/ ~Truthy(body.phone)
        \/ ~Truthy(body.address)

\* Mutants of the duplicate check: a filter that matches nothing, and a filter
\* on the wrong field.
FindNothing(coll, email) == {}
FindByName(coll, email) == {u \in coll : u.name = email}

\* collection.findOne({ email }): the documents the filter matches.
FindByEmail(coll, email) == {u \in coll : u.email = email}

\* Mutant of newUser: the body's own created wins over the server's clock.
NewUserFromBody(body, t) ==
    [name |-> body.name, email |-> body.email, phone |-> body.phone,
     address |-> body.address,
     created |-> IF body.created # Undefined THEN body.created ELSE Date(t)]

\* newUser: the four destructured fields and the server's clock.
NewUser(body, t) ==
    [name |-> body.name, email |-> body.email, phone |-> body.phone,
     address |-> body.address, created |-> Date(t)]

\* insertOne gives the document the ObjectId the driver generated.
WithId(d, id) == [f \in DOMAIN d \cup {"_id"} |-> IF f = "_id" THEN id ELSE d[f]]

\* Other CreateUser handlers that passed the duplicate check for this email
\* and have not inserted yet.
InWindow(p, email) ==
    {q \in Procs \ {p} : pc[q] = "insertUser" /\ doc[q].email = email}

CreateUserBegin(p, body) ==
    /\ Free(p)
    /\ LET r == [op |-> "createUser", body |-> body, at |-> now]
       IN  IF MissingUserFields(body)
           THEN Respond(p, r, 400,
                        [success |-> FALSE, error |-> "All fields are required"])
           ELSE /\ IdLeft
                /\ Await(p, r, "findOne")
                /\ doc' = doc
    /\ UNCHANGED << users, pets, now, nextId, storeUp, alive, raced >>

CreateUserFindOneReturn(p) ==
    /\ Ready
    /\ pc[p] = "findOne"
    /\ IF ~storeUp
       THEN /\ Catch(p, req[p], StoreErrorMessage)
            /\ raced' = raced
       ELSE IF FindByEmail(users, req[p].body.email) # {}
       THEN /\ Respond(p, req[p], 400,
                       [success |-> FALSE, error |-> "Email already exists"])
            /\ UNCHANGED << alive, raced >>
       ELSE /\ doc' = [doc EXCEPT ![p] = NewUser(req[p].body, now)]
            /\ pc' = [pc EXCEPT ![p] = "insertUser"]
            /\ out' = NoExchange
            /\ raced' = IF InWindow(p, req[p].body.email) # {}
                        THEN raced \cup {req[p].body.email} ELSE raced
            /\ UNCHANGED << req, alive >>
    /\ UNCHANGED << users, pets, now, nextId, storeUp >>

CreateUserInsertReturn(p) ==
    /\ Ready
    /\ pc[p] = "insertUser"
    /\ IF ~storeUp
       THEN /\ Catch(p, req[p], StoreErrorMessage)
            /\ UNCHANGED << users, nextId >>
       ELSE /\ users' = users \cup {WithId(doc[p], nextId)}
            /\ nextId' = nextId + 1
            /\ Respond(p, req[p], 200,
                       [success |-> TRUE, message |-> "User added successfully",
                        userId |-> nextId])
            /\ alive' = alive
    /\ UNCHANGED << pets, now, storeUp, raced >>

(***************************************************************************)
(* DELETE /api/users/:id and DELETE /api/pets/:id                          *)
(***************************************************************************)
\* collection.deleteOne({ _id }): at most one matching document is removed.
Matching(coll, id) == {d \in coll : d._id = id}

\* Mutant of deleteOne: a matching document takes the whole collection with it.
DeleteEverything(coll, id) == IF Matching(coll, id) = {} THEN coll ELSE {}

DeleteOne(coll, id) ==
    IF Matching(coll, id) = {} THEN coll
    ELSE coll \ {CHOOSE d \in Matching(coll, id) : TRUE}
DeletedCount(coll, id) == Cardinality(coll) - Cardinality(DeleteOne(coll, id))

\* new ObjectId(req.params.id) is evaluated before the await: a rejected
\* parameter throws into the catch block and no store call is made.
DeleteBegin(p, op, param) ==
    /\ Free(p)
    /\ LET r == [op |-> op, id |-> param]
       IN  IF ObjectId(param).ok
           THEN /\ Await(p, r, op)
                /\ UNCHANGED << doc, alive >>
           ELSE Catch(p, r, BsonErrorMessage)
    /\ UNCHANGED << users, pets, now, nextId, storeUp, raced >>

DeleteUserBegin(p, param) == DeleteBegin(p, "deleteUser", param)
DeletePetBegin(p, param) == DeleteBegin(p, "deletePet", param)

\* result.deletedCount === 1 ? 200 : 404
DeleteResult(p, count, okMessage, missingMessage) ==
    IF count = 1
    THEN Respond(p, req[p], 200, [success |-> TRUE, message |-> okMessage])
    ELSE Respond(p, req[p], 404, [success |-> FALSE, error |-> missingMessage])

DeleteUserReturn(p) ==
    /\ Ready
    /\ pc[p] = "deleteUser"
    /\ IF ~storeUp
       THEN /\ Catch(p, req[p], StoreErrorMessage)
            /\ users' = users
       ELSE /\ users' = DeleteOne(users, ObjectId(req[p].id).id)
            /\ DeleteResult(p, DeletedCount(users, ObjectId(req[p].id).id),
                            "User deleted successfully", "User not found")
            /\ alive' = alive
    /\ UNCHANGED << pets, now, nextId, storeUp, raced >>

DeletePetReturn(p) ==
    /\ Ready
    /\ pc[p] = "deletePet"
    /\ IF ~storeUp
       THEN /\ Catch(p, req[p], StoreErrorMessage)
            /\ pets' = pets
       ELSE /\ pets' = DeleteOne(pets, ObjectId(req[p].id).id)
            /\ DeleteResult(p, DeletedCount(pets, ObjectId(req[p].id).id),
                            "Pet deleted successfully", "Pet not found")
            /\ alive' = alive
    /\ UNCHANGED << users, now, nextId, storeUp, raced >>

(***************************************************************************)
(* GET /api/users and GET /api/pets                                        *)
(***************************************************************************)
\* find({}).sort({ created: -1 }).toArray(): every document of the
\* collection, later created first; the store fixes no order among documents
\* with the same created value.
Listings(coll) ==
    {s \in [1..Cardinality(coll) -> coll] :
        \A i, j \in 1..Cardinality(coll) : i # j => s[i] # s[j]}
\* Mutant of the sort: oldest first.
SortedOldestFirst(coll) ==
    {s \in Listings(coll) :
        \A i, j \in 1..Cardinality(coll) : i < j => s[i].created.ms <= s[j].created.ms}

SortedByCreated(coll) ==
    {s \in Listings(coll) :
        \A i, j \in 1..Cardinality(coll) : i < j => s[i].created.ms >= s[j].created.ms}

ListUsersBegin(p) ==
    /\ Free(p)
    /\ Await(p, [op |-> "listUsers"], "findUsers")
    /\ UNCHANGED << users, pets, doc, now, nextId, storeUp, alive, raced >>

ListUsersReturn(p) ==
    /\ Ready
    /\ pc[p] = "findUsers"
    /\ IF ~storeUp
       THEN Catch(p, req[p], StoreErrorMessage)
       ELSE /\ \E s \in SortedByCreated(users) :
                 Respond(p, req[p], 200, [success |-> TRUE, users |-> s])
            /\ alive' = alive
    /\ UNCHANGED << users, pets, now, nextId, storeUp, raced >>

ListPetsBegin(p) ==
    /\ Free(p)
    /\ Await(p, [op |-> "listPets"], "findPets")
    /\ UNCHANGED << users, pets, doc, now, nextId, storeUp, alive, raced >>

ListPetsReturn(p) ==
    /\ Ready
    /\ pc[p] = "findPets"
    /\ IF ~storeUp
       THEN Catch(p, req[p], StoreErrorMessage)
       ELSE /\ \E s \in SortedByCreated(pets) :
                 Respond(p, req[p], 200, [success |-> TRUE, pets |-> s])
            /\ alive' = alive
    /\ UNCHANGED << users, pets, now, nextId, storeUp, raced >>

(***************************************************************************)
(* POST /api/pets                                                          *)
(***************************************************************************)
\* !petName || !species || !breed || !age || !ownerName || !ownerPhone
MissingPetFields(body) ==
    ~Truthy(body.petName) \/ ~Truthy(body.species) \/ ~Truthy(body.breed)
        \/ ~Truthy(body.age) \/ ~Truthy(body.ownerName) \/ ~Truthy(body.ownerPhone)

\* age < 0 || age > 50
AgeRejected(age) == JsLess(age, Num(0)) \/ JsGreater(age, Num(500))

NewPet(body, t) ==
    [petName |-> body.petName, species |-> body.species, breed |-> body.breed,
     age |-> ParseInt(body.age), ownerName |-> body.ownerName,
     ownerPhone |-> body.ownerPhone, created |-> Date(t)]

CreatePetBegin(p, body) ==
    /\ Free(p)
    /\ LET r == [op |-> "createPet", body |-> body, at |-> now]
       IN  IF MissingPetFields(body)
           THEN Respond(p, r, 400,
                        [success |-> FALSE, error |-> "All fields are required"])
           ELSE IF AgeRejected(body.age)
           THEN Respond(p, r, 400,
                        [success |-> FALSE,
                         error |-> "Age must be between 0 and 50 years"])
           ELSE /\ IdLeft
                /\ Await(p, r, "insertPet")
                /\ doc' = [doc EXCEPT ![p] = NewPet(body, now)]
    /\ UNCHANGED << users, pets, now, nextId, storeUp, alive, raced >>

CreatePetInsertReturn(p) ==
    /\ Ready
    /\ pc[p] = "insertPet"
    /\ IF ~storeUp
       THEN /\ Catch(p, req[p], StoreErrorMessage)
            /\ UNCHANGED << pets, nextId >>
       ELSE /\ pets' = pets \cup {WithId(doc[p], nextId)}
            /\ nextId' = nextId + 1
            /\ Respond(p, req[p], 200,
                       [success |-> TRUE, message |-> "Pet added successfully",
                        petId |-> nextId])
            /\ alive' = alive
    /\ UNCHANGED << users, now, storeUp, raced >>

(***************************************************************************)
(* Specifications.                                                         *)
(***************************************************************************)
\* The clock, the store's availability and the sending of responses, under
\* every workload.
Environment == Tick \/ StoreFail \/ StoreRecover \/ Flush

\* Requests to the users routes, any body of UserBodies.
NextUsers ==
    \/ Environment
    \/ \E p \in Procs : \E body \in UserBodies : CreateUserBegin(p, body)
    \/ \E p \in Procs : CreateUserFindOneReturn(p)
    \/ \E p \in Procs : CreateUserInsertReturn(p)
    \/ \E p \in Procs : \E param \in IdParams : DeleteUserBegin(p, param)
    \/ \E p \in Procs : DeleteUserReturn(p)
    \/ \E p \in Procs : ListUsersBegin(p)
    \/ \E p \in Procs : ListUsersReturn(p)

SpecUsers == Init /\ [][NextUsers]_vars

\* Requests to the pets routes, any body of PetBodies.
NextPets ==
    \/ Environment
    \/ \E p \in Procs : \E body \in PetBodies : CreatePetBegin(p, body)
    \/ \E p \in Procs : CreatePetInsertReturn(p)
    \/ \E p \in Procs : \E param \in IdParams : DeletePetBegin(p, param)
    \/ \E p \in Procs : DeletePetReturn(p)
    \/ \E p \in Procs : ListPetsBegin(p)
    \/ \E p \in Procs : ListPetsReturn(p)

SpecPets == Init /\ [][NextPets]_vars

\* One complete body per email and one body without a name; one accepted
\* and one rejected age.
CoreUserBodies ==
    {b \in UserBodies : b.created = Undefined /\ Truthy(b.email) /\ Truthy(b.phone)
                            /\ Truthy(b.address)}
CorePetBodies ==
    {b \in PetBodies : (\A f \in PetTextFields : Truthy(b[f]))
                           /\ b.age \in {Num(120), Num(600)}}

\* Requests to every route, with the bodies of CoreUserBodies and CorePetBodies.
Next ==
    \/ Environment
    \/ \E p \in Procs : StatusBegin(p)
    \/ \E p \in Procs : StatusReturn(p)
    \/ \E p \in Procs : \E body \in CoreUserBodies : CreateUserBegin(p, body)
    \/ \E p \in Procs : CreateUserFindOneReturn(p)
    \/ \E p \in Procs : CreateUserInsertReturn(p)
    \/ \E p \in Procs : \E param \in IdParams : DeleteUserBegin(p, param)
    \/ \E p \in Procs : DeleteUserReturn(p)
    \/ \E p \in Procs : ListUsersBegin(p)
    \/ \E p \in Procs : ListUsersReturn(p)
    \/ \E p \in Procs : \E body \in CorePetBodies : CreatePetBegin(p, body)
    \/ \E p \in Procs : CreatePetInsertReturn(p)
    \/ \E p \in Procs : \E param \in IdParams : DeletePetBegin(p, param)
    \/ \E p \in Procs : DeletePetReturn(p)
    \/ \E p \in Procs : ListPetsBegin(p)
    \/ \E p \in Procs : ListPetsReturn(p)

Spec == Init /\ [][Next]_vars

\* Create requests to both collections, any body, the store up or down.
NextCreate ==
    \/ StoreFail
    \/ StoreRecover
    \/ Flush
    \/ \E p \in Procs : \E body \in UserBodies : CreateUserBegin(p, body)
    \/ \E p \in Procs : CreateUserFindOneReturn(p)
    \/ \E p \in Procs : CreateUserInsertReturn(p)
    \/ \E p \in Procs : \E body \in PetBodies : CreatePetBegin(p, body)
    \/ \E p \in Procs : CreatePetInsertReturn(p)

SpecCreate == Init /\ [][NextCreate]_vars

\* Create and delete requests to both collections, the store up or down.
NextDelete ==
    \/ StoreFail
    \/ StoreRecover
    \/ Flush
    \/ \E p \in Procs : \E body \in CoreUserBodies : CreateUserBegin(p, body)
    \/ \E p \in Procs : CreateUserFindOneReturn(p)
    \/ \E p \in Procs : CreateUserInsertReturn(p)
    \/ \E p \in Procs : \E param \in IdParams : DeleteUserBegin(p, param)
    \/ \E p \in Procs : DeleteUserReturn(p)
    \/ \E p \in Procs : \E body \in CorePetBodies : CreatePetBegin(p, body)
    \/ \E p \in Procs : CreatePetInsertReturn(p)
    \/ \E p \in Procs : \E param \in IdParams : DeletePetBegin(p, param)
    \/ \E p \in Procs : DeletePetReturn(p)

SpecDelete == Init /\ [][NextDelete]_vars

\* Requests to every route, the store up or down.
NextOutage ==
    \/ StoreFail
    \/ StoreRecover
    \/ Flush
    \/ \E p \in Procs : StatusBegin(p)
    \/ \E p \in Procs : StatusReturn(p)
    \/ \E p \in Procs : \E body \in CoreUserBodies : CreateUserBegin(p, body)
    \/ \E p \in Procs : CreateUserFindOneReturn(p)
    \/ \E p \in Procs : CreateUserInsertReturn(p)
    \/ \E p \in Procs : \E param \in IdParams : DeleteUserBegin(p, param)
    \/ \E p \in Procs : DeleteUserReturn(p)
    \/ \E p \in Procs : ListUsersBegin(p)
    \/ \E p \in Procs : ListUsersReturn(p)
    \/ \E p \in Procs : \E body \in CorePetBodies : CreatePetBegin(p, body)
    \/ \E p \in Procs : CreatePetInsertReturn(p)
    \/ \E p \in Procs : \E param \in IdParams : DeletePetBegin(p, param)
    \/ \E p \in Procs : DeletePetReturn(p)
    \/ \E p \in Procs : ListPetsBegin(p)
    \/ \E p \in Procs : ListPetsReturn(p)

SpecOutage == Init /\ [][NextOutage]_vars

\* Create, delete and list requests to both collections as the clock runs.
NextList ==
    \/ Tick
    \/ Flush
    \/ \E p \in Procs : \E body \in CoreUserBodies : CreateUserBegin(p, body)
    \/ \E p \in Procs : CreateUserFindOneReturn(p)
    \/ \E p \in Procs : CreateUserInsertReturn(p)
    \/ \E p \in Procs : \E param \in IdParams : DeleteUserBegin(p, param)
    \/ \E p \in Procs : DeleteUserReturn(p)
    \/ \E p \in Procs : ListUsersBegin(p)
    \/ \E p \in Procs : ListUsersReturn(p)
    \/ \E p \in Procs : \E body \in CorePetBodies : CreatePetBegin(p, body)
    \/ \E p \in Procs : CreatePetInsertReturn(p)
    \/ \E p \in Procs : \E param \in IdParams : DeletePetBegin(p, param)
    \/ \E p \in Procs : DeletePetReturn(p)
    \/ \E p \in Procs : ListPetsBegin(p)
    \/ \E p \in Procs : ListPetsReturn(p)

SpecList == Init /\ [][NextList]_vars

(***************************************************************************)
(* Properties.                                                             *)
(***************************************************************************)
\* The store call slot p awaits at label returns in this step.
Returns(p, label) == pc[p] = label /\ pc'[p] # label
\* The last step answered a request of kind op.
Answered(op) == out.req.op = op
EmailPresent(email) == \E u \in users : u.email = email
DuplicateEmails == {u \in users : \E v \in users : v # u /\ v.email = u.email}

\* C1 as stated: in every reachable state, also with two CreateUser requests
\* for one email in flight at once, no two stored users have the same email.
C1_UniqueEmails == DuplicateEmails = {}

\* C1 amended: two stored users have the same email only if two CreateUser
\* handlers for that email were both between their duplicate check and their
\* insert at the same time.
C1_UniqueEmailsUnlessRaced == \A u \in DuplicateEmails : u.email \in raced

\* Two users were created one after the other, with no overlap of two
\* check-to-insert windows, and the second insert has just been answered.
C1_Witness ==
    /\ Cardinality(users) = 2
    /\ raced = {}
    /\ Answered("createUser")
    /\ out.status = 200

\* C2: when the duplicate check of a CreateUser request (its four fields
\* non-empty) is answered by the store and a stored user has the request's
\* email, the response is 400 "Email already exists" and users is unchanged.
C2_DuplicateEmailRejected ==
    [][\A p \in Procs :
          (Returns(p, "findOne") /\ storeUp /\ EmailPresent(req[p].body.email))
              => /\ out' = [req |-> req[p], status |-> 400,
                            json |-> [success |-> FALSE,
                                      error |-> "Email already exists"]]
                 /\ users' = users]_vars

\* A CreateUser request for a stored email has just been refused.
C2_Witness ==
    /\ Answered("createUser")
    /\ ~MissingUserFields(out.req.body)
    /\ EmailPresent(out.req.body.email)
    /\ out.status = 400
    /\ out.json.error = "Email already exists"

\* C8: a CreateUser request with four non-empty fields whose duplicate check
\* finds no stored user with its email goes on to insert; when the store
\* performs the insert, users grows by exactly one document, the response is
\* 200 with the new document's id, and that document holds exactly the
\* submitted name, email, phone and address and a created Date read from the
\* server clock, not earlier than the time of the call, whatever created the
\* body carried.
C8_Inserted(p) ==
    /\ Cardinality(users') = Cardinality(users) + 1
    /\ users \subseteq users'
    /\ out'.req = req[p]
    /\ out'.status = 200
    /\ out'.json.success
    /\ \E u \in users' \ users :
          /\ u._id = out'.json.userId
          /\ \A v \in users' : v._id = u._id => v = u
          /\ DOMAIN u = {"_id", "name", "email", "phone", "address", "created"}
          /\ u.name = req[p].body.name
          /\ u.email = req[p].body.email
          /\ u.phone = req[p].body.phone
          /\ u.address = req[p].body.address
          /\ u.created.t = "date"
          /\ u.created.ms >= req[p].at
          /\ u.created.ms <= now
C8_CreateUserInserts ==
    [][\A p \in Procs :
          /\ (Returns(p, "findOne") /\ storeUp /\ ~EmailPresent(req[p].body.email))
                => (pc'[p] = "insertUser" /\ users' = users)
          /\ (Returns(p, "insertUser") /\ storeUp) => C8_Inserted(p)]_vars

\* A request carrying its own created has been answered 200, and the stored
\* document's created is the server's, later than the call.
C8_Witness ==
    /\ Answered("createUser")
    /\ out.status = 200
    /\ out.req.body.created = ClientCreated
    /\ \E u \in users : u._id = out.json.userId /\ u.created = Date(out.req.at + 1)

\* A value is missing or empty: undefined or the empty string.
MissingOrEmpty(v) == v = Undefined \/ v = Empty
MissingFieldsAnswer == [success |-> FALSE, error |-> "All fields are required"]
UserBodyIncomplete(body) == \E f \in UserFields : MissingOrEmpty(body[f])
PetBodyIncomplete(body) == \E f \in PetTextFields \cup {"age"} : MissingOrEmpty(body[f])

\* C3: a CreateUser request with name, email, phone or address missing or
\* empty, and a CreatePet request with petName, species, breed, age, ownerName
\* or ownerPhone missing or empty, is answered 400 "All fields are required"
\* in the step that accepts it, before any store call (so also when its email
\* is a stored one), and the step changes neither collection; no such request
\* is ever waiting on the store.
C3_MissingFieldsRejected ==
    [][/\ \A p \in Procs :
            /\ req'[p].op = "createUser" => ~UserBodyIncomplete(req'[p].body)
            /\ req'[p].op = "createPet" => ~PetBodyIncomplete(req'[p].body)
       /\ (out'.req.op = "createUser" /\ UserBodyIncomplete(out'.req.body))
            => (out'.status = 400 /\ out'.json = MissingFieldsAnswer
                  /\ users' = users /\ pets' = pets)
       /\ (out'.req.op = "createPet" /\ PetBodyIncomplete(out'.req.body))
            => (out'.status = 400 /\ out'.json = MissingFieldsAnswer
                  /\ users' = users /\ pets' = pets)]_vars

\* A CreateUser request without a name and with a stored email has been
\* answered as missing fields, while a pet is stored too.
C3_Witness ==
    /\ Answered("createUser")
    /\ MissingOrEmpty(out.req.body.name)
    /\ EmailPresent(out.req.body.email)
    /\ out.status = 400
    /\ out.json = MissingFieldsAnswer
    /\ pets # {}

PetTextPresent(body) == \A f \in PetTextFields : ~MissingOrEmpty(body[f])
BoundaryAges == {Num(0), Num(500), Str(<< "0" >>), Str(<< "5", "0" >>)}
\* The age is a number, or a string that reads as one, outside 0..50.
AgeOutside(age) ==
    /\ ~MissingOrEmpty(age)
    /\ IsNum(ToNumber(age))
    /\ (ToNumber(age).n < 0 \/ ToNumber(age).n > 500)

\* C4 as stated: a CreatePet request with its other fields non-empty is
\* answered 400 "Age must be between 0 and 50 years" when its age is outside
\* 0..50, and is not refused when its age is 0 or 50, given as a number or as
\* a numeric string.
C4_AgeRangeChecked ==
    (Answered("createPet") /\ PetTextPresent(out.req.body))
        => /\ AgeOutside(out.req.body.age)
                => (out.status = 400
                      /\ out.json.error = "Age must be between 0 and 50 years")
           /\ out.req.body.age \in BoundaryAges => out.status # 400

\* An out-of-range age has been refused, and a boundary age has been stored.
C4_Witness ==
    /\ Answered("createPet")
    /\ AgeOutside(out.req.body.age)
    /\ out.status = 400
    /\ \E d \in pets : d.age = Num(500)

\* C5 as stated: every stored pet has an age that is an integer from 0 to 50.
IsIntegerAge(v) == IsNum(v) /\ v.n % 10 = 0 /\ 0 <= v.n /\ v.n <= 500
C5_StoredAgesInRange == \A d \in pets : IsIntegerAge(d.age)

\* The age "12" has been stored as the integer 12.
C5_Witness ==
    /\ Answered("createPet")
    /\ out.req.body.age = Str(<< "1", "2" >>)
    /\ out.status = 200
    /\ \E d \in pets : d._id = out.json.petId /\ d.age = Num(120)

Ids(coll) == {d._id : d \in coll}
\* The parameter names no document of coll: it is rejected by ObjectId, or
\* no document has that id.
NamesNothing(param, coll) ==
    ~(param.len = 24 /\ param.hex) \/ param.val \notin Ids(coll)

\* C6 as stated: a DeleteUser or DeletePet request whose id never existed, was
\* already deleted or cannot be parsed is answered 404 (the store being up),
\* and the collections are unchanged.
C6_UnknownIdIs404 ==
    [][/\ (out'.req.op = "deleteUser" /\ storeUp /\ NamesNothing(out'.req.id, users))
            => (out'.status = 404 /\ users' = users /\ pets' = pets)
       /\ (out'.req.op = "deletePet" /\ storeUp /\ NamesNothing(out'.req.id, pets))
            => (out'.status = 404 /\ users' = users /\ pets' = pets)]_vars

\* The id of a deleted user has been answered 404.
C6_Witness ==
    /\ Answered("deleteUser")
    /\ out.status = 404
    /\ out.req.id.val \in 1..(nextId - 1)

\* C7: when the store performs the deleteOne of a DeleteUser (DeletePet)
\* request, the answer is 200 and exactly the document with the request's id
\* leaves users (pets) if such a document is stored, and 404 with users (pets)
\* unchanged if not; the other collection is unchanged either way.  A new
\* document never gets an id used before, so of two deletes of one id, in a
\* row or in flight together, the first the store performs is answered 200
\* and the second 404.
C7_DeleteStep(p, label, coll, collAfter, other, otherAfter) ==
    (Returns(p, label) /\ storeUp)
        => /\ otherAfter = other
           /\ out'.req = req[p]
           /\ IF req[p].id.val \in Ids(coll)
              THEN /\ out'.status = 200
                   /\ collAfter = {d \in coll : d._id # req[p].id.val}
                   /\ Cardinality(collAfter) = Cardinality(coll) - 1
              ELSE /\ out'.status = 404
                   /\ collAfter = coll
C7_DeleteRemovesExactlyOne ==
    [][/\ \A p \in Procs :
            /\ C7_DeleteStep(p, "deleteUser", users, users', pets, pets')
            /\ C7_DeleteStep(p, "deletePet", pets, pets', users, users')
       /\ \A d \in (users' \ users) \cup (pets' \ pets) :
            d._id >= nextId /\ d._id < nextId']_vars

\* Of two deletes of one user in flight together, one has been answered 200
\* and the other is still waiting for the store.
C7_Witness ==
    /\ Answered("deleteUser")
    /\ out.status = 200
    /\ users # {}
    /\ \E q \in Procs : pc[q] = "deleteUser" /\ req[q].id = out.req.id

IsListingOf(s, coll) ==
    /\ DOMAIN s = 1..Cardinality(coll)
    /\ {s[i] : i \in DOMAIN s} = coll
Descending(s) == \A i, j \in DOMAIN s : i < j => s[i].created.ms >= s[j].created.ms
StrictlyDescending(s) == \A i, j \in DOMAIN s : i < j => s[i].created.ms > s[j].created.ms

\* C9 as stated: a List answer is ordered by created strictly descending.
C9_ListStrictlyDescending ==
    /\ (Answered("listUsers") /\ out.status = 200) => StrictlyDescending(out.json.users)
    /\ (Answered("listPets") /\ out.status = 200) => StrictlyDescending(out.json.pets)

\* C9 amended: a List answer (the store answering the find) holds every document of the collection exactly
\* once, a document with a later created before one with an earlier created
\* (documents with equal created in either order), and the step changes
\* neither collection.
C9_ListNewestFirst ==
    [][\A p \in Procs :
          /\ (Returns(p, "findUsers") /\ storeUp)
                => /\ out'.req = req[p] /\ out'.status = 200
                   /\ IsListingOf(out'.json.users, users)
                   /\ Descending(out'.json.users)
                   /\ users' = users /\ pets' = pets
          /\ (Returns(p, "findPets") /\ storeUp)
                => /\ out'.req = req[p] /\ out'.status = 200
                   /\ IsListingOf(out'.json.pets, pets)
                   /\ Descending(out'.json.pets)
                   /\ users' = users /\ pets' = pets]_vars

\* Two users created at different times have been listed, the later first.
C9_Witness ==
    /\ Answered("listUsers")
    /\ out.status = 200
    /\ Len(out.json.users) = 2
    /\ out.json.users[1].created.ms > out.json.users[2].created.ms
    /\ out.json.users[1]._id > out.json.users[2]._id

Awaiting(p) == pc[p] # "idle"
\* C10: whatever the state of the store, a handler that stops waiting answers
\* its own request in that step and the process stays alive; Status answers
\* 200 with connected equal to whether the store answered the ping; a List,
\* Create or Delete handler whose store call fails answers 500 with
\* {success: false, error} and changes neither collection.
C10_FailuresAnswered ==
    [][/\ alive'
       /\ \A p \in Procs :
            /\ (Awaiting(p) /\ pc'[p] = "idle") => out'.req = req[p]
            /\ Returns(p, "ping")
                 => (out'.status = 200 /\ out'.json.connected = storeUp)
            /\ (Awaiting(p) /\ pc'[p] # pc[p] /\ pc[p] # "ping" /\ ~storeUp)
                 => /\ out'.req = req[p]
                    /\ out'.status = 500
                    /\ out'.json = [success |-> FALSE, error |-> StoreErrorMessage]
                    /\ users' = users /\ pets' = pets]_vars

\* With the store down, an insert has been answered 500 while a Status
\* request waits for its ping.
C10_Witness ==
    /\ ~storeUp
    /\ Answered("createUser")
    /\ out.status = 500
    /\ alive
    /\ \E q \in Procs : pc[q] = "ping"

====
